---- MODULE Spec2Model ----
(***************************************************************************)
(* Streaming session manager of the UniFi Protect camera delegate          *)
(* (src/src/protect-stream.ts, class ProtectStreamingDelegate).            *)
(*                                                                         *)
(* The delegate keeps two maps keyed by session id: pendingSessions        *)
(* (filled by prepareStream) and ongoingSessions (filled by startStream).  *)
(* Every handler runs on one JavaScript thread: a handler runs without     *)
(* interruption up to its next await, so one action of this module is one  *)
(* synchronous stretch of a handler.  prepareStream is the only handler    *)
(* with awaits; startStream is declared async but contains none, so it     *)
(* runs to its end (or to its throw) inside the call.                      *)
(*                                                                         *)
(* FfmpegProcess (protect-ffmpeg.ts), RtpSplitter and RtpUtils             *)
(* (protect-rtp.ts) are not part of the sources at hand; what they do on   *)
(* launch, stop, close and port reservation is taken from their written    *)
(* contract and enters as an input of the action that calls them.          *)
(*                                                                         *)
(* Specifications: Spec follows two session ids through the life cycle     *)
(* with the values of a request (address version, key material) and of the *)
(* environment (ports, SSRCs, interface addresses) kept at one ordinary    *)
(* value each.  SpecAddress, SpecSsrc, SpecPorts and SpecSrtp draw one     *)
(* kind of value from its full set, with fewer prepareStream calls.        *)
(* SpecDeep allows three prepareStream calls.  SpecStart draws the values  *)
(* of a start request and the platform's debug switch from their sets.     *)
(* SpecHistory records with each answer what the handler met for its       *)
(* session id.  SpecAnyType has requests of unknown type arrive as well.   *)
(* SpecKeys gives each of two negotiations its own key material.           *)
(***************************************************************************)
EXTENDS Integers, Sequences, FiniteSets, TLC

\* Bounds of the model: the prepareStream calls made in one run, and how many
\* of them may be suspended at the same time.
MaxNegotiations == 2
MaxTasks == 2

\* The prepareStream calls of a run that draws one kind of value from its full
\* set, and of a run that follows one session id through three negotiations.
MaxDataNegotiations == 1
MaxDeepNegotiations == 3

\* The prepareStream calls suspended at the same time in a run that records
\* what each handler met for its session id.
MaxHistoryTasks == 1

\* The port numbers RtpUtils.reservePorts() hands out in a run that varies them.
MaxPort == 4

\* request.sessionID: the session ids the requests carry (opaque strings).
SessionIds == {"s1", "s2"}

\* rtpSplitter: RtpSplitter | null.  Relay handles are positive.
NoRelay == 0

VARIABLES
  twoWayAudio,       \* this.camera.twoWayAudio
  pendingSessions,   \* this.pendingSessions: session id -> SessionInfo
  ongoingSessions,   \* this.ongoingSessions: session id -> [ffmpeg, rtpSplitter]
  prepares,          \* prepareStream calls suspended at an await
  nNeg,              \* prepareStream calls made so far; call n builds SessionInfo n
  openRelays,        \* relays constructed (new RtpSplitter) on which no close() has returned
  shutdown,          \* the SHUTDOWN event has been handled
  last,              \* the request answered last (or the shutdown), and what its handler did
  vary,              \* the kind of request and environment value this run varies
  maxNeg,            \* the prepareStream calls this run makes at most
  interfaces,        \* os.networkInterfaces()[interfaceName] of the host
  debugMode          \* this.platform.debugMode

vars == <<twoWayAudio, pendingSessions, ongoingSessions, prepares, nNeg,
          openRelays, shutdown, last, vary, maxNeg, interfaces, debugMode>>

----------------------------------------------------------------------------
\* Plain helpers for JavaScript objects used as maps and for arrays.

\* m[k] = v done only when m has no entry for k.
PutIfAbsent(m, k, v) ==
  [x \in DOMAIN m \cup {k} |-> IF x \in DOMAIN m THEN m[x] ELSE v]

Put(m, k, v) == [x \in DOMAIN m \cup {k} |-> IF x = k THEN v ELSE m[x]]

\* delete m[k] done as m = {}: every key goes.
DelAll(m, k) == [x \in {} |-> m[x]]

Del(m, k) == [x \in DOMAIN m \ {k} |-> m[x]]

Range(s) == {s[i] : i \in 1..Len(s)}

EmptyMap == [x \in {} |-> 0]

\* What a handler did: how it ended ("returned", or the error it ended with),
\* the error its catch swallowed ("none", "stop", "close"), the stop() calls it
\* made in order, the relays it closed, and its use of the request's callback
\* ("ok": callback(), "error": callback(error), "none": not called,
\* "delegated": handed to FfmpegProcess), and what it handed out (out: the
\* response passed to the callback, or what it wrote to a process; built: the
\* command line it built and what it was built from).  In a run that follows
\* the history of the session ids, found is what the handler met for its
\* session id when it ran: the SessionInfo registered as pending (its number,
\* 0 for none) and the prepareStream calls suspended.
NoOutput == [kind |-> "none"]

NoCommand == [kind |-> "none"]

NotFound == [pending |-> 0, suspended |-> {}]

Found(id) ==
  IF vary = "history"
  THEN [pending |-> IF id \in DOMAIN pendingSessions THEN pendingSessions[id].serial
                    ELSE 0,
        suspended |-> {t.serial : t \in {u \in prepares : u.id = id}}]
  ELSE NotFound

Did(op, id, result, error, stopped, closed, cb) ==
  [op |-> op, id |-> id, result |-> result, error |-> error,
   stopped |-> stopped, closed |-> closed, cb |-> cb, out |-> NoOutput,
   built |-> NoCommand, found |-> Found(id)]

Answered(d, out) == [d EXCEPT !.out = out]

Building(d, built) == [d EXCEPT !.built = built]

----------------------------------------------------------------------------
\* Collaborators outside the sources at hand.

\* FfmpegProcess.stop(): F is the set of handles whose stop() throws in this call.
FfmpegStopThrows(h, F) == h \in F

\* RtpSplitter.close(): CT is the set of relays whose close() throws in this call.
RtpCloseThrows(r, CT) == r \in CT

\* new FfmpegProcess(...): returns a handle or fails to launch.
LaunchOutcomes == {"ok", "LaunchError"}

\* FfmpegProcess.codecEnabled(videoProcessor, "libfdk_aac")
CodecOutcomes == BOOLEAN

----------------------------------------------------------------------------
\* stopStream

\* The for loop of stopStream going from the last process of the array to
\* the first.
RECURSIVE StopAllBackwards(_, _)
StopAllBackwards(procs, F) ==
  IF procs = <<>> THEN [calls |-> <<>>, threw |-> FALSE]
  ELSE IF FfmpegStopThrows(procs[Len(procs)], F)
       THEN [calls |-> <<procs[Len(procs)]>>, threw |-> TRUE]
       ELSE LET r == StopAllBackwards(SubSeq(procs, 1, Len(procs) - 1), F)
            IN [calls |-> <<procs[Len(procs)]>> \o r.calls, threw |-> r.threw]

\* The for loop of stopStream: stop() on each process in array order, left at
\* the first stop() that throws.
RECURSIVE StopAll(_, _)
StopAll(procs, F) ==
  IF procs = <<>> THEN [calls |-> <<>>, threw |-> FALSE]
  ELSE IF FfmpegStopThrows(Head(procs), F)
       THEN [calls |-> <<Head(procs)>>, threw |-> TRUE]
       ELSE LET r == StopAll(Tail(procs), F)
            IN [calls |-> <<Head(procs)>> \o r.calls, threw |-> r.threw]

\* The body of stopStream's try block on the registries (pend, ong).
StopTryBody(pend, ong, id, F, CT) ==
  LET active == id \in DOMAIN ong
      loop == IF active THEN StopAll(ong[id].ffmpeg, F)
              ELSE [calls |-> <<>>, threw |-> FALSE]
      relay == IF active THEN ong[id].rtpSplitter ELSE NoRelay
      closeCalled == ~loop.threw /\ relay # NoRelay
      closeThrew == closeCalled /\ RtpCloseThrows(relay, CT)
      deleted == ~loop.threw /\ ~closeThrew
  IN [pendingSessions |-> IF deleted THEN Del(pend, id) ELSE pend,
      ongoingSessions |-> IF deleted THEN Del(ong, id) ELSE ong,
      calls |-> loop.calls,
      closed |-> IF closeCalled /\ ~closeThrew THEN {relay} ELSE {},
      error |-> IF loop.threw THEN "stop" ELSE IF closeThrew THEN "close" ELSE "none"]

\* stopStream with its catch left out: the error of the try block reaches the caller.
StopStreamNoCatch(pend, ong, id, F, CT) ==
  LET b == StopTryBody(pend, ong, id, F, CT)
  IN [pendingSessions |-> b.pendingSessions, ongoingSessions |-> b.ongoingSessions,
      calls |-> b.calls, closed |-> b.closed, error |-> b.error,
      propagated |-> b.error # "none"]

\* stopStream: the try block, and a catch that logs and returns.
StopStream(pend, ong, id, F, CT) ==
  LET b == StopTryBody(pend, ong, id, F, CT)
  IN [pendingSessions |-> b.pendingSessions, ongoingSessions |-> b.ongoingSessions,
      calls |-> b.calls, closed |-> b.closed, error |-> b.error,
      propagated |-> FALSE]

\* The processes and the relay of the active session id, if there is one.
ProcsOf(ong, ids) == UNION {Range(ong[i].ffmpeg) : i \in ids \cap DOMAIN ong}

RelaysOf(ong, ids) == {ong[i].rtpSplitter : i \in ids \cap DOMAIN ong} \ {NoRelay}

\* handleStreamRequest, case STOP: stopStream(request.sessionID); callback().
RequestStop(id) ==
  /\ ~shutdown
  /\ \E F \in SUBSET ProcsOf(ongoingSessions, {id}),
        CT \in SUBSET RelaysOf(ongoingSessions, {id}) :
       LET r == StopStream(pendingSessions, ongoingSessions, id, F, CT)
       IN /\ pendingSessions' = r.pendingSessions
          /\ ongoingSessions' = r.ongoingSessions
          /\ openRelays' = openRelays \ r.closed
          /\ last' = Did("stop", id,
                         IF r.propagated THEN "threw" ELSE "returned",
                         r.error, r.calls, r.closed,
                         IF r.propagated THEN "none" ELSE "ok")
  /\ UNCHANGED <<vary, maxNeg, interfaces, debugMode, twoWayAudio, prepares, nNeg, shutdown>>

----------------------------------------------------------------------------
\* The values a request and the environment supply.  A run draws one kind of
\* value (vary) from its full set and keeps the other kinds at one ordinary
\* value, so that each kind is explored in full without multiplying the others.

\* request.addressVersion: ("ipv4" | "ipv6")
AddressVersions == IF vary = "address" THEN {"ipv4", "ipv6"} ELSE {"ipv4"}

\* os.networkInterfaces()[interfaceName]: the address records the default
\* interface of the host can have.  The empty list also stands for an interface without an entry:
\* with the optional chaining of getDefaultIpAddress both give undefined.
Info(internal, family, address) ==
  [internal |-> internal, family |-> family, address |-> address]

NetworkInterfaces ==
  IF vary = "address"
  THEN {<<Info(FALSE, "IPv4", "192.0.2.1"), Info(FALSE, "IPv6", "2001:db8::1")>>,
        <<Info(FALSE, "IPv4", "192.0.2.1")>>,
        <<Info(FALSE, "IPv6", "2001:db8::1")>>,
        <<Info(TRUE, "IPv4", "127.0.0.1")>>,
        <<>>}
  ELSE {<<Info(FALSE, "IPv4", "192.0.2.1"), Info(FALSE, "IPv6", "2001:db8::1")>>}

\* return null as any
NullAddress == "null"

\* this.hap.CameraController.generateSynchronisationSource(): a random number;
\* two calls are independent draws.
SsrcValues(ordinary) == IF vary = "ssrc" THEN {1, 2} ELSE {ordinary}

\* const audioServerPort = ... : -1, no port
NoPort == -1

\* RtpUtils.reservePorts(): binds a free port, releases it and returns its
\* number, or fails when no port can be bound.  Nothing holds the port after
\* the call, so a later call may return the same number.
ReservePorts(ordinary) ==
  {[ok |-> TRUE, port |-> p] : p \in IF vary = "ports" THEN 1..MaxPort ELSE {ordinary}}
  \cup {[ok |-> FALSE, port |-> NoPort]}

\* request.video.srtp_key, srtp_salt and request.audio.srtp_key, srtp_salt:
\* byte buffers.  KeyLen and SaltLen are the lengths used here.
KeyLen == 2
SaltLen == 2

Bytes(len, seed) == [i \in 1..len |-> (seed * i + 11) % 256]

Material(seed) == [srtp_key |-> Bytes(KeyLen, seed), srtp_salt |-> Bytes(SaltLen, seed + 100)]

SrtpValues(ordinary) ==
  IF vary \in {"srtp", "keys"} THEN {Material(37), Material(201)} ELSE {Material(ordinary)}

\* The PrepareStreamRequest objects of a run (request.sessionID is passed apart).
Requests ==
  {[addressVersion |-> v, targetAddress |-> "198.51.100.7",
    video |-> [port |-> 50010, srtp_key |-> vm.srtp_key, srtp_salt |-> vm.srtp_salt],
    audio |-> [port |-> 50020, srtp_key |-> am.srtp_key, srtp_salt |-> am.srtp_salt]] :
     v \in AddressVersions, vm \in SrtpValues(37), am \in SrtpValues(201)}

\* Buffer.concat([a, b])
BufferConcat(a, b) == a \o b

\* Buffer.toString("base64"): each group of three bytes gives four characters
\* of the base64 alphabet; a last group of one or two bytes is padded with "=".
Base64Alphabet ==
  <<"A", "B", "C", "D", "E", "F", "G", "H", "I", "J", "K", "L", "M",
    "N", "O", "P", "Q", "R", "S", "T", "U", "V", "W", "X", "Y", "Z",
    "a", "b", "c", "d", "e", "f", "g", "h", "i", "j", "k", "l", "m",
    "n", "o", "p", "q", "r", "s", "t", "u", "v", "w", "x", "y", "z",
    "0", "1", "2", "3", "4", "5", "6", "7", "8", "9", "+", "/">>

Base64Char(n) == Base64Alphabet[n + 1]

RECURSIVE Base64(_)
Base64(buf) ==
  IF Len(buf) = 0 THEN <<>>
  ELSE IF Len(buf) = 1
  THEN <<Base64Char(buf[1] \div 4), Base64Char((buf[1] % 4) * 16), "=", "=">>
  ELSE IF Len(buf) = 2
  THEN <<Base64Char(buf[1] \div 4),
         Base64Char((buf[1] % 4) * 16 + buf[2] \div 16),
         Base64Char((buf[2] % 16) * 4), "=">>
  ELSE <<Base64Char(buf[1] \div 4),
         Base64Char((buf[1] % 4) * 16 + buf[2] \div 16),
         Base64Char((buf[2] % 16) * 4 + buf[3] \div 64),
         Base64Char(buf[3] % 64)>> \o Base64(SubSeq(buf, 4, Len(buf)))

----------------------------------------------------------------------------
\* prepareStream: one action per synchronous stretch between two awaits.

\* A call of prepareStream: its request, where it is suspended, and its locals
\* (not yet assigned: NoPort, 0, NoRelay).
Task(serial, id, request) ==
  [serial |-> serial, id |-> id, pc |-> "codec", request |-> request,
   hasLibFdk |-> FALSE,
   audioReturnPort |-> NoPort, audioServerPort |-> NoPort, audioTwoWayPort |-> NoPort,
   audioSSRC |-> 0, rtpSplitter |-> NoRelay,
   videoReturnPort |-> NoPort, videoSSRC |-> 0]

\* (hasLibFdk && this.camera.twoWayAudio) with the codec left out of it.
TwoWayIgnoringCodec(hasLibFdk) == twoWayAudio

\* (hasLibFdk && this.camera.twoWayAudio)
TwoWay(hasLibFdk) == hasLibFdk /\ twoWayAudio

\* The SessionInfo object with each buffer built salt first.
SessionInfoSaltFirst(t) ==
  [serial |-> t.serial,
   address |-> t.request.targetAddress,
   addressVersion |-> t.request.addressVersion,
   videoPort |-> t.request.video.port,
   videoReturnPort |-> t.videoReturnPort,
   videoSRTP |-> BufferConcat(t.request.video.srtp_salt, t.request.video.srtp_key),
   videoSSRC |-> t.videoSSRC,
   hasLibFdk |-> t.hasLibFdk,
   audioPort |-> t.request.audio.port,
   audioTwoWayPort |-> t.audioTwoWayPort,
   rtpSplitter |-> t.rtpSplitter,
   audioReturnPort |-> t.audioReturnPort,
   audioSRTP |-> BufferConcat(t.request.audio.srtp_salt, t.request.audio.srtp_key),
   audioSSRC |-> t.audioSSRC]

\* The SessionInfo object built by prepareStream.
SessionInfo(t) ==
  [serial |-> t.serial,
   address |-> t.request.targetAddress,
   addressVersion |-> t.request.addressVersion,
   videoPort |-> t.request.video.port,
   videoReturnPort |-> t.videoReturnPort,
   videoSRTP |-> BufferConcat(t.request.video.srtp_key, t.request.video.srtp_salt),
   videoSSRC |-> t.videoSSRC,
   hasLibFdk |-> t.hasLibFdk,
   audioPort |-> t.request.audio.port,
   audioTwoWayPort |-> t.audioTwoWayPort,
   rtpSplitter |-> t.rtpSplitter,
   audioReturnPort |-> t.audioReturnPort,
   audioSRTP |-> BufferConcat(t.request.audio.srtp_key, t.request.audio.srtp_salt),
   audioSSRC |-> t.audioSSRC]

\* getDefaultIpAddress(addressVersion) on the address records infos of the
\* default interface.
ExternalInfo(infos) == SelectSeq(infos, LAMBDA info : ~info.internal)

PreferredFamily(addressVersion) == IF addressVersion = "ipv6" THEN "IPv6" ELSE "IPv4"

GetDefaultIpAddress(addressVersion, infos) ==
  LET externalInfo == ExternalInfo(infos)
      found == SelectSeq(externalInfo,
                         LAMBDA info : info.family = PreferredFamily(addressVersion))
  IN IF found # <<>> THEN found[1].address
     ELSE IF externalInfo # <<>> THEN externalInfo[1].address
     ELSE NullAddress

\* The PrepareStreamResponse object.
Response(t, currentAddress) ==
  [kind |-> "response",
   address |-> currentAddress,
   video |-> [port |-> t.videoReturnPort, ssrc |-> t.videoSSRC,
              srtp_key |-> t.request.video.srtp_key,
              srtp_salt |-> t.request.video.srtp_salt],
   audio |-> [port |-> IF TwoWay(t.hasLibFdk) THEN t.audioServerPort
                       ELSE t.audioReturnPort,
              ssrc |-> t.audioSSRC,
              srtp_key |-> t.request.audio.srtp_key,
              srtp_salt |-> t.request.audio.srtp_salt]]

\* A stretch of prepareStream that ends at an await answers no request: last
\* keeps the request handled last.
Suspend(t, u) ==
  /\ prepares' = (prepares \ {t}) \cup {u}
  /\ UNCHANGED last

\* An awaited promise rejects, and the callback is called without an error all
\* the same.
RejectedAnswering(t, error) ==
  /\ prepares' = prepares \ {t}
  /\ last' = Did("prepare", t.id, error, "none", <<>>, {}, "ok")

\* An awaited promise rejects: the error leaves prepareStream as the rejection
\* of its own promise, which its caller did not keep; the statements after the
\* await do not run, the callback among them.
Rejected(t, error) ==
  /\ prepares' = prepares \ {t}
  /\ last' = Did("prepare", t.id, error, "none", <<>>, {}, "none")

\* The prepareStream calls that may be suspended at the same time in this run.
TaskLimit == IF vary \in {"history", "keys"} THEN MaxHistoryTasks ELSE MaxTasks

\* The call of prepareStream, up to: await FfmpegProcess.codecEnabled(...)
PrepareStream(id) ==
  /\ ~shutdown
  /\ nNeg < maxNeg
  /\ Cardinality(prepares) < TaskLimit
  /\ nNeg' = nNeg + 1
  /\ \E request \in Requests :
       prepares' = prepares \cup {Task(nNeg + 1, id, request)}
  /\ UNCHANGED last
  /\ UNCHANGED <<vary, maxNeg, interfaces, debugMode, twoWayAudio, pendingSessions, ongoingSessions,
                 openRelays, shutdown>>

\* hasLibFdk is known; up to: await RtpUtils.reservePorts() for audioReturnPort
CodecEnabledDone(t) ==
  /\ ~shutdown
  /\ t.pc = "codec"
  /\ \E has \in CodecOutcomes :
       Suspend(t, [t EXCEPT !.pc = "audioReturn", !.hasLibFdk = has])
  /\ UNCHANGED <<vary, maxNeg, interfaces, debugMode, twoWayAudio, pendingSessions, ongoingSessions,
                 nNeg, openRelays, shutdown>>

\* audioReturnPort is known.  With two-way audio: up to the await for
\* audioServerPort.  Without: audioServerPort, audioTwoWayPort = -1, the SSRC,
\* rtpSplitter = null, up to the await for videoReturnPort.
AudioReturnPortDone(t) ==
  /\ ~shutdown
  /\ t.pc = "audioReturn"
  /\ \E r \in ReservePorts(1), ssrc \in SsrcValues(1) :
       IF ~r.ok THEN Rejected(t, "AllocationError")
       ELSE IF TwoWay(t.hasLibFdk)
       THEN Suspend(t, [t EXCEPT !.pc = "audioServer", !.audioReturnPort = r.port])
       ELSE Suspend(t, [t EXCEPT !.pc = "videoReturn", !.audioReturnPort = r.port,
                                 !.audioSSRC = ssrc])
  /\ UNCHANGED <<vary, maxNeg, interfaces, debugMode, twoWayAudio, pendingSessions, ongoingSessions,
                 nNeg, openRelays, shutdown>>

\* audioServerPort is known; up to: await RtpUtils.reservePorts(2)
AudioServerPortDone(t) ==
  /\ ~shutdown
  /\ t.pc = "audioServer"
  /\ \E r \in ReservePorts(2) :
       IF ~r.ok THEN Rejected(t, "AllocationError")
       ELSE Suspend(t, [t EXCEPT !.pc = "audioTwoWay", !.audioServerPort = r.port])
  /\ UNCHANGED <<vary, maxNeg, interfaces, debugMode, twoWayAudio, pendingSessions, ongoingSessions,
                 nNeg, openRelays, shutdown>>

\* audioTwoWayPort is known; the SSRC, new RtpSplitter(this, addressVersion,
\* audioServerPort, audioReturnPort, audioTwoWayPort), up to the await for
\* videoReturnPort.
AudioTwoWayPortDone(t) ==
  /\ ~shutdown
  /\ t.pc = "audioTwoWay"
  /\ \E r \in ReservePorts(3), ssrc \in SsrcValues(1) :
       IF ~r.ok
       THEN Rejected(t, "AllocationError") /\ UNCHANGED openRelays
       ELSE /\ openRelays' = openRelays \cup {t.serial}
            /\ Suspend(t, [t EXCEPT !.pc = "videoReturn", !.audioTwoWayPort = r.port,
                                    !.audioSSRC = ssrc, !.rtpSplitter = t.serial])
  /\ UNCHANGED <<vary, maxNeg, interfaces, debugMode, twoWayAudio, pendingSessions, ongoingSessions,
                 nNeg, shutdown>>

\* videoReturnPort is known; the SSRC, sessionInfo is built, up to:
\* await this.getDefaultIpAddress(request.addressVersion)
VideoReturnPortDone(t) ==
  /\ ~shutdown
  /\ t.pc = "videoReturn"
  /\ \E r \in ReservePorts(4), ssrc \in SsrcValues(2) :
       IF ~r.ok THEN Rejected(t, "AllocationError")
       ELSE Suspend(t, [t EXCEPT !.pc = "address", !.videoReturnPort = r.port,
                                 !.videoSSRC = ssrc])
  /\ UNCHANGED <<vary, maxNeg, interfaces, debugMode, twoWayAudio, pendingSessions, ongoingSessions,
                 nNeg, openRelays, shutdown>>

\* currentAddress is known; the response is built,
\* this.pendingSessions[request.sessionID] = sessionInfo; callback(undefined, response)
DefaultIpAddressDone(t) ==
  /\ ~shutdown
  /\ t.pc = "address"
  /\ LET currentAddress == GetDefaultIpAddress(t.request.addressVersion, interfaces)
     IN last' = Answered(Did("prepare", t.id, "returned", "none", <<>>, {}, "ok"),
                         Response(t, currentAddress))
  /\ pendingSessions' = Put(pendingSessions, t.id, SessionInfo(t))
  /\ prepares' = prepares \ {t}
  /\ UNCHANGED <<vary, maxNeg, interfaces, debugMode, twoWayAudio, ongoingSessions, nNeg, openRelays,
                 shutdown>>

----------------------------------------------------------------------------
\* startStream

\* The FfmpegProcess objects startStream constructs from SessionInfo n: a
\* SessionInfo is started at most once with success, so (n, role) names them.
OutboundProcess(n) == 2 * n - 1

TalkbackProcess(n) == 2 * n

\* this.ongoingSessions[id] = { ffmpeg: [ ffmpeg ], rtpSplitter: sessionInfo.rtpSplitter }
\* with the delete of the pending entry left out.
HousekeepingKeepsPending(pend, ong, id, ffmpeg) ==
  [pendingSessions |-> pend,
   ongoingSessions |-> Put(ong, id, [ffmpeg |-> <<ffmpeg>>,
                                     rtpSplitter |-> pend[id].rtpSplitter])]

\* this.ongoingSessions[id] = { ffmpeg: [ ffmpeg ], rtpSplitter: sessionInfo.rtpSplitter };
\* delete this.pendingSessions[id];
Housekeeping(pend, ong, id, ffmpeg) ==
  [pendingSessions |-> Del(pend, id),
   ongoingSessions |-> Put(ong, id, [ffmpeg |-> <<ffmpeg>>,
                                     rtpSplitter |-> pend[id].rtpSplitter])]

\* this.ongoingSessions[id].ffmpeg.push(ffmpegReturnAudio), with the new
\* process put in front of the array.
PushTwoWayInFront(ong, id, ffmpeg) ==
  [ong EXCEPT ![id].ffmpeg = <<ffmpeg>> \o @]

\* this.ongoingSessions[id].ffmpeg.push(ffmpegReturnAudio)
PushTwoWay(ong, id, ffmpeg) ==
  [ong EXCEPT ![id].ffmpeg = Append(@, ffmpeg)]

\* this.name
Name == "camera"

\* const sdpIpVersion = sessionInfo.addressVersion === "ipv6" ? "IP6 " : "IP4"
SdpIpVersion(sessionInfo) ==
  IF sessionInfo.addressVersion = "ipv6" THEN "IP6 " ELSE "IP4"

\* The lines of sdpReturnAudio before the crypto line; a line is the tuple of
\* the pieces the code concatenates.
SdpHead(sessionInfo) ==
  <<<<"v=0">>,
    <<"o=- 0 0 IN ", SdpIpVersion(sessionInfo), " 127.0.0.1">>,
    <<"s=", Name, " Audio Talkback">>,
    <<"c=IN ", SdpIpVersion(sessionInfo), " ", sessionInfo.address>>,
    <<"t=0 0">>,
    <<"m=audio ", sessionInfo.audioTwoWayPort, " RTP/AVP 110">>,
    <<"b=AS:24">>,
    <<"a=rtpmap:110 MPEG4-GENERIC/16000/1">>,
    <<"a=fmtp:110 profile-level-id=1;mode=AAC-hbr;sizelength=13;indexlength=3;indexdeltalength=3; config=F8F0212C00BC00">>
  >>

\* sdpReturnAudio with the video key material in its crypto line.
SdpReturnAudioVideoKey(sessionInfo) ==
  Append(SdpHead(sessionInfo),
         <<"a=crypto:1 AES_CM_128_HMAC_SHA1_80 inline:", Base64(sessionInfo.videoSRTP)>>)

\* const sdpReturnAudio = [ ... ].join("\n"): the lines in order.
SdpReturnAudio(sessionInfo) ==
  Append(SdpHead(sessionInfo),
         <<"a=crypto:1 AES_CM_128_HMAC_SHA1_80 inline:", Base64(sessionInfo.audioSRTP)>>)

\* ffmpegReturnAudio.getStdin()?.write(sdpReturnAudio); ffmpegReturnAudio.getStdin()?.end()
\* what the process `ffmpeg` was given on its standard input, which is then closed.
StdinOf(ffmpeg, text) ==
  [kind |-> "stdin", process |-> ffmpeg, written |-> <<text>>, ended |-> TRUE]

\* The StartStreamRequest objects of a run (request.sessionID is passed apart).
VideoRequests ==
  IF vary = "start"
  THEN {[width |-> w, height |-> (w * 9) \div 16, fps |-> f,
          max_bit_rate |-> IF w = 640 THEN 132 ELSE 299, pt |-> 99] :
          w \in {640, 1280}, f \in {15, 30}}
  ELSE {[width |-> 1280, height |-> 720, fps |-> 30, max_bit_rate |-> 299, pt |-> 99]}

StartRequests ==
  {[video |-> v, audio |-> [sample_rate |-> 16, max_bit_rate |-> 24, pt |-> 110]] :
     v \in VideoRequests}

\* this.camera.cameraUrl, as configureVideoStream has set it when a start arrives.
CameraUrls ==
  IF vary = "start"
  THEN {"rtsp://192.0.2.1:7447/high", "rtsp://192.0.2.1:7447/low"}
  ELSE {"rtsp://192.0.2.1:7447/high"}

\* this.platform.config.ffmpegOptions
FfmpegOptions == "-probesize 32 -analyzeduration 0 -fflags nobuffer -strict experimental"

\* A string is the tuple of the strings the code concatenates; a number that
\* is concatenated to a string gives the digits of its decimal form.
Digits == <<"0", "1", "2", "3", "4", "5", "6", "7", "8", "9">>

RECURSIVE Decimal(_)
Decimal(n) ==
  IF n < 0 THEN <<"-">> \o Decimal(-n)
  ELSE IF n < 10 THEN <<Digits[n + 1]>>
  ELSE Decimal(n \div 10) \o <<Digits[(n % 10) + 1]>>

\* const videomtu = 188 * 3; const audiomtu = 188 * 1;
Videomtu == 188 * 3

Audiomtu == 188 * 1

\* The command line is the sequence of the elements that are joined with " ".
\* const ffmpegVideoArgs = [ ... ].join(" ")
FfmpegVideoArgs(request) ==
  <<<<"">>,
    <<"-map 0:v">>,
    <<"-vcodec copy">>,
    <<"-f rawvideo">>,
    <<"-pix_fmt yuvj420p">>,
    <<"-r ">> \o Decimal(request.video.fps),
    <<FfmpegOptions>>,
    <<"-b:v ">> \o Decimal(request.video.max_bit_rate) \o <<"k">>,
    <<"-bufsize ">> \o Decimal(2 * request.video.max_bit_rate) \o <<"k">>,
    <<"-maxrate ">> \o Decimal(request.video.max_bit_rate) \o <<"k">>,
    <<"-payload_type ">> \o Decimal(request.video.pt)>>

\* "srtp://" + address + ":" + port + "?rtcpport=" + port + "&localrtcpport=" + port
\*   + "&pkt_size=" + mtu
SrtpUrl(address, port, mtu) ==
  <<"srtp://", address, ":">> \o Decimal(port) \o <<"?rtcpport=">> \o Decimal(port)
    \o <<"&localrtcpport=">> \o Decimal(port) \o <<"&pkt_size=">> \o Decimal(mtu)

\* ffmpegVideoStream with the packet size of the audio stream.
FfmpegVideoStreamAudioMtu(sessionInfo) ==
  <<<<"">>,
    <<"-ssrc ">> \o Decimal(sessionInfo.videoSSRC),
    <<"-f rtp">>,
    <<"-srtp_out_suite AES_CM_128_HMAC_SHA1_80">>,
    <<"-srtp_out_params ">> \o Base64(sessionInfo.videoSRTP),
    SrtpUrl(sessionInfo.address, sessionInfo.videoPort, Audiomtu)>>

\* const ffmpegVideoStream = [ ... ].join(" ")
FfmpegVideoStream(sessionInfo) ==
  <<<<"">>,
    <<"-ssrc ">> \o Decimal(sessionInfo.videoSSRC),
    <<"-f rtp">>,
    <<"-srtp_out_suite AES_CM_128_HMAC_SHA1_80">>,
    <<"-srtp_out_params ">> \o Base64(sessionInfo.videoSRTP),
    SrtpUrl(sessionInfo.address, sessionInfo.videoPort, Videomtu)>>

\* const ffmpegAudioArgs = [ ... ].join(" ")
FfmpegAudioArgs(request) ==
  <<<<"">>,
    <<"-map 0:a">>,
    <<"-acodec libfdk_aac">>,
    <<"-profile:a aac_eld">>,
    <<"-flags +global_header">>,
    <<"-f null">>,
    <<"-ar ">> \o Decimal(request.audio.sample_rate) \o <<"k">>,
    <<"-b:a ">> \o Decimal(request.audio.max_bit_rate) \o <<"k">>,
    <<"-bufsize ">> \o Decimal(2 * request.audio.max_bit_rate) \o <<"k">>,
    <<"-ac 1">>,
    <<"-payload_type ">> \o Decimal(request.audio.pt)>>

\* const ffmpegAudioStream = [ ... ].join(" ")
FfmpegAudioStream(sessionInfo) ==
  <<<<"">>,
    <<"-ssrc ">> \o Decimal(sessionInfo.audioSSRC),
    <<"-f rtp">>,
    <<"-srtp_out_suite AES_CM_128_HMAC_SHA1_80">>,
    <<"-srtp_out_params ">> \o Base64(sessionInfo.audioSRTP),
    SrtpUrl(sessionInfo.address, sessionInfo.audioPort, Audiomtu)>>

\* const beVerbose = false
BeVerbose == FALSE

\* if(beVerbose) ... else if(this.platform.debugMode) ...
Loglevel ==
  IF BeVerbose THEN <<<<" -loglevel level+verbose">>>>
  ELSE IF debugMode THEN <<<<" -loglevel level+debug">>>>
  ELSE <<>>

\* fcmd without the audio portion, whatever sessionInfo.hasLibFdk is.
FcmdWithoutAudio(cameraUrl, sessionInfo, request) ==
  <<<<"-hide_banner -rtsp_transport tcp -i ", cameraUrl>>>>
    \o FfmpegVideoArgs(request) \o FfmpegVideoStream(sessionInfo) \o Loglevel

\* fcmd with " -loglevel level+debug" added while another session is streaming.
FcmdByRegistry(cameraUrl, sessionInfo, request) ==
  <<<<"-hide_banner -rtsp_transport tcp -i ", cameraUrl>>>>
    \o FfmpegVideoArgs(request) \o FfmpegVideoStream(sessionInfo)
    \o (IF sessionInfo.hasLibFdk
        THEN FfmpegAudioArgs(request) \o FfmpegAudioStream(sessionInfo)
        ELSE <<>>)
    \o (IF DOMAIN ongoingSessions # {} THEN <<<<" -loglevel level+debug">>>> ELSE Loglevel)

\* fcmd as it is handed to new FfmpegProcess(...)
Fcmd(cameraUrl, sessionInfo, request) ==
  <<<<"-hide_banner -rtsp_transport tcp -i ", cameraUrl>>>>
    \o FfmpegVideoArgs(request) \o FfmpegVideoStream(sessionInfo)
    \o (IF sessionInfo.hasLibFdk
        THEN FfmpegAudioArgs(request) \o FfmpegAudioStream(sessionInfo)
        ELSE <<>>)
    \o Loglevel

\* The command line built by a start, and what it was built from.
Built(cameraUrl, sessionInfo, request) ==
  [kind |-> "command", cameraUrl |-> cameraUrl, sessionInfo |-> sessionInfo,
   request |-> request, fcmd |-> Fcmd(cameraUrl, sessionInfo, request)]

\* startStream(request, callback), as called by handleStreamRequest for START.
\* launch1, launch2: what the two FfmpegProcess constructions do.
StartStream(id, cameraUrl, request, launch1, launch2) ==
  IF id \notin DOMAIN pendingSessions
  THEN \* sessionInfo is undefined: reading sessionInfo.videoSSRC throws a
       \* TypeError inside the async function; its promise is dropped by
       \* handleStreamRequest and the callback is never used.
       /\ last' = Did("start", id, "TypeError", "none", <<>>, {}, "none")
       /\ UNCHANGED <<pendingSessions, ongoingSessions>>
  ELSE IF launch1 # "ok"
  THEN \* new FfmpegProcess(...) fails: the statements after it do not run.
       /\ last' = Building(Did("start", id, "LaunchError", "none", <<>>, {}, "delegated"),
                           Built(cameraUrl, pendingSessions[id], request))
       /\ UNCHANGED <<pendingSessions, ongoingSessions>>
  ELSE LET sessionInfo == pendingSessions[id]
           built == Built(cameraUrl, sessionInfo, request)
           hk == Housekeeping(pendingSessions, ongoingSessions, id,
                              OutboundProcess(sessionInfo.serial))
       IN /\ pendingSessions' = hk.pendingSessions
          /\ IF ~sessionInfo.hasLibFdk \/ ~twoWayAudio
             THEN /\ ongoingSessions' = hk.ongoingSessions
                  /\ last' = Building(Did("start", id, "returned", "none", <<>>, {},
                                          "delegated"), built)
             ELSE IF launch2 # "ok"
             THEN /\ ongoingSessions' = hk.ongoingSessions
                  /\ last' = Building(Did("start", id, "LaunchError", "none", <<>>, {},
                                          "delegated"), built)
             ELSE /\ ongoingSessions' = PushTwoWay(hk.ongoingSessions, id,
                                                 TalkbackProcess(sessionInfo.serial))
                  /\ last' = Building(Answered(Did("start", id, "returned", "none", <<>>,
                                                   {}, "delegated"),
                                               StdinOf(TalkbackProcess(sessionInfo.serial),
                                                       SdpReturnAudio(sessionInfo))),
                                      built)

\* handleStreamRequest, case START
RequestStart(id) ==
  /\ ~shutdown
  /\ \E cameraUrl \in CameraUrls, request \in StartRequests,
        launch1 \in LaunchOutcomes, launch2 \in LaunchOutcomes :
       StartStream(id, cameraUrl, request, launch1, launch2)
  /\ UNCHANGED <<vary, maxNeg, interfaces, debugMode, twoWayAudio, prepares, nNeg, openRelays, shutdown>>

\* handleStreamRequest, case RECONFIGURE with its break left out: control
\* falls through to case STOP.
ReconfigureFallsThrough(pend, ong, id) ==
  LET r == StopStream(pend, ong, id, {}, {})
  IN [pendingSessions |-> r.pendingSessions, ongoingSessions |-> r.ongoingSessions,
      calls |-> r.calls, closed |-> r.closed]

\* What case RECONFIGURE does to the registries and the processes: nothing.
Reconfigure(pend, ong, id) ==
  [pendingSessions |-> pend, ongoingSessions |-> ong, calls |-> <<>>, closed |-> {}]

\* handleStreamRequest, case RECONFIGURE: log, callback().
RequestReconfigure(id) ==
  /\ ~shutdown
  /\ LET r == Reconfigure(pendingSessions, ongoingSessions, id)
     IN /\ pendingSessions' = r.pendingSessions
        /\ ongoingSessions' = r.ongoingSessions
        /\ openRelays' = openRelays \ r.closed
        /\ last' = Did("reconfigure", id, "returned", "none", r.calls, r.closed, "ok")
  /\ UNCHANGED <<vary, maxNeg, interfaces, debugMode, twoWayAudio, prepares, nNeg, shutdown>>

\* handleStreamRequest, default: a request type that is none of START,
\* RECONFIGURE and STOP shares the statements of case STOP.
RequestOther(id) ==
  /\ ~shutdown
  /\ \E F \in SUBSET ProcsOf(ongoingSessions, {id}),
        CT \in SUBSET RelaysOf(ongoingSessions, {id}) :
       LET r == StopStream(pendingSessions, ongoingSessions, id, F, CT)
       IN /\ pendingSessions' = r.pendingSessions
          /\ ongoingSessions' = r.ongoingSessions
          /\ openRelays' = openRelays \ r.closed
          /\ last' = Did("other", id,
                         IF r.propagated THEN "threw" ELSE "returned",
                         r.error, r.calls, r.closed,
                         IF r.propagated THEN "none" ELSE "ok")
  /\ UNCHANGED <<vary, maxNeg, interfaces, debugMode, twoWayAudio, prepares, nNeg, shutdown>>

----------------------------------------------------------------------------
\* The SHUTDOWN handler: for(const session of Object.keys(this.ongoingSessions))
\* this.stopStream(session).  stopStream(i) reads and writes the entries of i
\* alone, so the order of the keys does not show in the result but for the
\* order of the stop() calls of different sessions; the keys are taken in
\* a fixed order here.
RECURSIVE ShutdownLoop(_, _, _, _, _)
ShutdownLoop(keys, pend, ong, F, CT) ==
  IF keys = {}
  THEN [pendingSessions |-> pend, ongoingSessions |-> ong, calls |-> <<>>,
        closed |-> {}, error |-> "none", propagated |-> FALSE]
  ELSE LET session == CHOOSE k \in keys : TRUE
           r == StopStream(pend, ong, session, F, CT)
       IN IF r.propagated
          THEN [pendingSessions |-> r.pendingSessions,
                ongoingSessions |-> r.ongoingSessions, calls |-> r.calls,
                closed |-> r.closed, error |-> r.error, propagated |-> TRUE]
          ELSE LET rest == ShutdownLoop(keys \ {session}, r.pendingSessions,
                                        r.ongoingSessions, F, CT)
               IN [pendingSessions |-> rest.pendingSessions,
                   ongoingSessions |-> rest.ongoingSessions,
                   calls |-> r.calls \o rest.calls,
                   closed |-> r.closed \cup rest.closed,
                   error |-> IF r.error # "none" THEN r.error ELSE rest.error,
                   propagated |-> rest.propagated]

Shutdown ==
  /\ ~shutdown
  /\ \E F \in SUBSET ProcsOf(ongoingSessions, SessionIds),
        CT \in SUBSET RelaysOf(ongoingSessions, SessionIds) :
       LET r == ShutdownLoop(DOMAIN ongoingSessions, pendingSessions,
                             ongoingSessions, F, CT)
       IN /\ pendingSessions' = r.pendingSessions
          /\ ongoingSessions' = r.ongoingSessions
          /\ openRelays' = openRelays \ r.closed
          /\ last' = Did("shutdown", "",
                         IF r.propagated THEN "threw" ELSE "returned",
                         r.error, r.calls, r.closed, "none")
  /\ shutdown' = TRUE
  /\ UNCHANGED <<vary, maxNeg, interfaces, debugMode, twoWayAudio, prepares, nNeg>>

----------------------------------------------------------------------------
\* The delegate after its constructor: both registries empty.
Constructed ==
  /\ twoWayAudio \in BOOLEAN
  /\ pendingSessions = EmptyMap
  /\ ongoingSessions = EmptyMap
  /\ prepares = {}
  /\ nNeg = 0
  /\ openRelays = {}
  /\ shutdown = FALSE
  /\ last = Did("init", "", "returned", "none", <<>>, {}, "none")

Init ==
  /\ vary = "none"
  /\ Constructed
  /\ maxNeg = MaxNegotiations
  /\ interfaces \in NetworkInterfaces
  /\ debugMode = FALSE

\* A run that draws the values of one kind from their full set.
InitVary(kind) ==
  /\ vary = kind
  /\ Constructed
  /\ maxNeg = MaxDataNegotiations
  /\ interfaces \in NetworkInterfaces
  /\ debugMode = FALSE

\* A run with three prepareStream calls, on a camera with two-way audio.
InitDeep ==
  /\ vary = "none"
  /\ Constructed
  /\ twoWayAudio
  /\ maxNeg = MaxDeepNegotiations
  /\ interfaces \in NetworkInterfaces
  /\ debugMode = FALSE

\* A run that draws the values of a start request from their full set, on a
\* platform with or without debugging.
InitStart ==
  /\ vary = "start"
  /\ Constructed
  /\ maxNeg = MaxDataNegotiations
  /\ interfaces \in NetworkInterfaces
  /\ debugMode \in BOOLEAN

\* A run that records what each handler met for its session id.
InitHistory ==
  /\ vary = "history"
  /\ Constructed
  /\ maxNeg = MaxNegotiations
  /\ interfaces \in NetworkInterfaces
  /\ debugMode = FALSE

\* A run in which each negotiation of several brings its own key material.
InitKeys ==
  /\ vary = "keys"
  /\ Constructed
  /\ maxNeg = MaxNegotiations
  /\ interfaces \in NetworkInterfaces
  /\ debugMode = FALSE

Next ==
  \/ \E id \in SessionIds : PrepareStream(id)
  \/ \E t \in prepares : CodecEnabledDone(t)
  \/ \E t \in prepares : AudioReturnPortDone(t)
  \/ \E t \in prepares : AudioServerPortDone(t)
  \/ \E t \in prepares : AudioTwoWayPortDone(t)
  \/ \E t \in prepares : VideoReturnPortDone(t)
  \/ \E t \in prepares : DefaultIpAddressDone(t)
  \/ \E id \in SessionIds : RequestStart(id)
  \/ \E id \in SessionIds : RequestReconfigure(id)
  \/ \E id \in SessionIds : RequestStop(id)
  \/ Shutdown

\* The steps of a run in which requests of other types than START, RECONFIGURE
\* and STOP arrive as well.
NextAnyType ==
  \/ \E id \in SessionIds : PrepareStream(id)
  \/ \E t \in prepares : CodecEnabledDone(t)
  \/ \E t \in prepares : AudioReturnPortDone(t)
  \/ \E t \in prepares : AudioServerPortDone(t)
  \/ \E t \in prepares : AudioTwoWayPortDone(t)
  \/ \E t \in prepares : VideoReturnPortDone(t)
  \/ \E t \in prepares : DefaultIpAddressDone(t)
  \/ \E id \in SessionIds : RequestStart(id)
  \/ \E id \in SessionIds : RequestReconfigure(id)
  \/ \E id \in SessionIds : RequestStop(id)
  \/ \E id \in SessionIds : RequestOther(id)
  \/ Shutdown

Spec == Init /\ [][Next]_vars

SpecAddress == InitVary("address") /\ [][Next]_vars

SpecSsrc == InitVary("ssrc") /\ [][Next]_vars

SpecPorts == InitVary("ports") /\ [][Next]_vars

SpecSrtp == InitVary("srtp") /\ [][Next]_vars

SpecDeep == InitDeep /\ [][Next]_vars

SpecStart == InitStart /\ [][Next]_vars

SpecHistory == InitHistory /\ [][Next]_vars

SpecKeys == InitKeys /\ [][Next]_vars

SpecAnyType == InitVary("type") /\ [][NextAnyType]_vars
----------------------------------------------------------------------------
\* Properties.

\* A step in which the request handler `op` ran for session id i.
Handled(op, i) == last' # last /\ last'.op = op /\ last'.id = i

Registered(i) == i \in DOMAIN pendingSessions \/ i \in DOMAIN ongoingSessions

\* C1: in every reachable state no session id is present in both the pending
\* registry and the active registry.
C1_NoIdPendingAndActive ==
  DOMAIN pendingSessions \cap DOMAIN ongoingSessions = {}

\* C2: after stop(id) returns, id is absent from the pending and the active
\* registry, stop() has been called on every process the active session owned,
\* and its relay, if it had one, has been closed.
C2_StopClearsSession ==
  [][\A i \in SessionIds :
       Handled("stop", i) =>
         /\ i \notin DOMAIN pendingSessions'
         /\ i \notin DOMAIN ongoingSessions'
         /\ ProcsOf(ongoingSessions, {i}) \subseteq Range(last'.stopped)
         /\ RelaysOf(ongoingSessions, {i}) \subseteq last'.closed]_vars

\* C3: a stop(id) that directly follows a stop(id), and a stop(id) on an id
\* present in neither registry, raises no error, changes neither registry,
\* calls stop() on no process and closes no relay.
C3_StopIdempotent ==
  [][\A i \in SessionIds :
       (/\ Handled("stop", i)
        /\ \/ last.op = "stop" /\ last.id = i
           \/ ~Registered(i))
       => /\ last'.result = "returned"
          /\ last'.error = "none"
          /\ pendingSessions' = pendingSessions
          /\ ongoingSessions' = ongoingSessions
          /\ last'.stopped = <<>>
          /\ last'.closed = {}]_vars

\* C4: when the stop() of one owned process throws during stop(id), stop() is
\* still called on the other processes of the session, its relay is still
\* closed, and the pending and active entries of id are still deleted.
C4_StopCleansUpAfterFailure ==
  [][\A i \in SessionIds :
       (Handled("stop", i) /\ last'.error = "stop")
       => /\ ProcsOf(ongoingSessions, {i}) \subseteq Range(last'.stopped)
          /\ RelaysOf(ongoingSessions, {i}) \subseteq last'.closed
          /\ i \notin DOMAIN pendingSessions'
          /\ i \notin DOMAIN ongoingSessions']_vars

\* C5: stop(id) never passes an error on to its caller: whatever stop() or
\* close() throws inside it, stopStream returns and the STOP handler calls
\* its completion callback.
C5_StopNeverPropagates ==
  last.op = "stop" => last.result = "returned" /\ last.cb = "ok"

\* A STOP request in which a stop() or a close() threw has been handled, and
\* its callback was called.
C5_Witness ==
  last.op = "stop" /\ last.error # "none" /\ last.cb = "ok"

\* C6: after the shutdown handler has run, the active and the pending registry
\* are both empty and stop() has been called on every process a session owned
\* before.
C6_ShutdownDrains ==
  [][(last' # last /\ last'.op = "shutdown")
     => /\ DOMAIN pendingSessions' = {}
        /\ DOMAIN ongoingSessions' = {}
        /\ ProcsOf(ongoingSessions, SessionIds) \subseteq Range(last'.stopped)]_vars

\* C7: start(id) with no pending entry for id reports an error to the caller
\* of start and has no side effect: both registries are unchanged, no process
\* is launched and no relay or port is taken.
C7_StartWithoutPendingFails ==
  [][\A i \in SessionIds :
       (Handled("start", i) /\ i \notin DOMAIN pendingSessions)
       => /\ last'.cb = "error"
          /\ pendingSessions' = pendingSessions
          /\ ongoingSessions' = ongoingSessions
          /\ openRelays' = openRelays]_vars

\* C8: after start(id) has succeeded on a negotiated session, the pending
\* registry has no entry for id and the active registry has one, which holds
\* the launched process.
C8_StartMovesPendingToActive ==
  (last.op = "start" /\ last.result = "returned")
  => /\ last.id \notin DOMAIN pendingSessions
     /\ last.id \in DOMAIN ongoingSessions
     /\ Len(ongoingSessions[last.id].ffmpeg) >= 1

\* A start has succeeded.
C8_Witness ==
  /\ last.op = "start" /\ last.result = "returned"
  /\ last.id \in DOMAIN ongoingSessions

\* C9: when the launch of a process fails during start(id), the relay made for
\* the session at negotiate time is closed and id is left in neither registry.
C9_LaunchFailureReleases ==
  [][\A i \in SessionIds :
       (Handled("start", i) /\ last'.result = "LaunchError")
       => /\ i \notin DOMAIN pendingSessions'
          /\ i \notin DOMAIN ongoingSessions'
          /\ pendingSessions[i].rtpSplitter \notin openRelays']_vars

\* C10: start(id) removes the pending entry of id whenever it finds one, also
\* when the start fails, so that no later start(id) finds the same entry.
C10_StartEvictsPending ==
  [][\A i \in SessionIds :
       (Handled("start", i) /\ i \in DOMAIN pendingSessions)
       => i \notin DOMAIN pendingSessions']_vars

\* The relays that are open and that neither a registry record nor a suspended
\* prepareStream call refers to.
Orphans ==
  openRelays \ ({pendingSessions[i].rtpSplitter : i \in DOMAIN pendingSessions}
                \cup {ongoingSessions[i].rtpSplitter : i \in DOMAIN ongoingSessions}
                \cup {t.rtpSplitter : t \in prepares})

\* C11: when a port reservation fails during negotiate, the allocation error is
\* reported to the caller of negotiate, both registries are unchanged, and no
\* partial state of the negotiation is kept (no relay is left open that
\* nothing refers to).
C11_ReservationFailureLeavesNothing ==
  [][\A i \in SessionIds :
       (Handled("prepare", i) /\ last'.result = "AllocationError")
       => /\ last'.cb = "error"
          /\ pendingSessions' = pendingSessions
          /\ ongoingSessions' = ongoingSessions
          /\ Orphans' \subseteq Orphans]_vars

\* The address records infos hold a non-internal address of the family that
\* the address version asks for.
HasAddressOfFamily(infos, addressVersion) ==
  \E k \in 1..Len(infos) :
    ~infos[k].internal /\ infos[k].family = PreferredFamily(addressVersion)

\* C12: when the default interface of the host has no non-internal address of
\* the family the peer asked for, negotiate fails: it reports an error to its
\* caller, hands out no response and stores no pending session.
C12_NoAddressOfFamilyFails ==
  [][\A t \in prepares :
       (/\ t.pc = "address"
        /\ t \notin prepares'
        /\ ~HasAddressOfFamily(interfaces, t.request.addressVersion))
       => /\ last'.op = "prepare" /\ last'.id = t.id
          /\ last'.cb = "error"
          /\ last'.out.kind # "response"
          /\ pendingSessions' = pendingSessions]_vars

\* The relay handles the records of the two registries refer to, as a bag of
\* references: one element per referring record.
RelayReferences ==
  {<<"pending", i>> : i \in {j \in DOMAIN pendingSessions :
                               pendingSessions[j].rtpSplitter # NoRelay}}
  \cup {<<"active", i>> : i \in {j \in DOMAIN ongoingSessions :
                                   ongoingSessions[j].rtpSplitter # NoRelay}}

RelayOf(ref) ==
  IF ref[1] = "pending" THEN pendingSessions[ref[2]].rtpSplitter
  ELSE ongoingSessions[ref[2]].rtpSplitter

\* C13: no relay handle and no process handle is referred to by two records of
\* the registries (pending or active, of the same id or of different ids); the
\* hand-over of the relay from the pending record to the active record at
\* start leaves no state in which both refer to it.
C13_HandlesHaveOneOwner ==
  /\ \A a \in RelayReferences, b \in RelayReferences :
       a # b => RelayOf(a) # RelayOf(b)
  /\ \A i \in DOMAIN ongoingSessions, j \in DOMAIN ongoingSessions :
       i # j => Range(ongoingSessions[i].ffmpeg) \cap Range(ongoingSessions[j].ffmpeg) = {}

\* A start has handed the relay of a two-way session over to its active
\* record, while another session holds a relay of its own.
C13_Witness ==
  /\ last.op = "start" /\ last.result = "returned"
  /\ last.id \in DOMAIN ongoingSessions
  /\ ongoingSessions[last.id].rtpSplitter # NoRelay
  /\ Cardinality(RelayReferences) = 2

\* C14: a stretch of an operation that ends at a suspension point changes
\* neither registry, and a stop(id) that runs while another operation on id is
\* suspended finds id pending, or active, or in neither registry, and never in
\* both.
C14_StopSeesConsistentSession ==
  [][/\ (prepares' \ prepares # {})
        => pendingSessions' = pendingSessions /\ ongoingSessions' = ongoingSessions
     /\ \A i \in SessionIds :
          (Handled("stop", i) /\ \E t \in prepares : t.id = i)
          => ~(i \in DOMAIN pendingSessions /\ i \in DOMAIN ongoingSessions)]_vars

\* A step in which the handler of a START, STOP or RECONFIGURE request for
\* session id i, or the shutdown handler (i = ""), ran: these are the steps
\* that leave the suspended prepareStream calls as they are, and each of them
\* writes last.
Ran(op, i) == prepares' = prepares /\ last'.op = op /\ last'.id = i

\* The session id the operation of a step acted for: the id of the
\* prepareStream call that began, moved on or ended in it, or else the id of
\* the request handled in it.
ActedFor ==
  IF prepares' # prepares
  THEN {t.id : t \in (prepares' \ prepares) \cup (prepares \ prepares')}
  ELSE {last'.id}

\* The relays that belong to session id b: those of its registry records and
\* of its suspended prepareStream calls.
RelaysFor(b) ==
  ({IF b \in DOMAIN pendingSessions THEN pendingSessions[b].rtpSplitter ELSE NoRelay}
   \cup RelaysOf(ongoingSessions, {b})
   \cup {t.rtpSplitter : t \in {u \in prepares : u.id = b}}) \ {NoRelay}

\* C15: a negotiate, start or stop for session id A leaves every other id B as
\* it was: its pending entry, its active entry, its processes (none is
\* stopped) and its relay (it stays open).
C15_OtherSessionsUntouched ==
  [][(last'.op # "shutdown")
     => \A b \in SessionIds \ ActedFor :
          /\ (b \in DOMAIN pendingSessions') = (b \in DOMAIN pendingSessions)
          /\ (b \in DOMAIN pendingSessions => pendingSessions'[b] = pendingSessions[b])
          /\ (b \in DOMAIN ongoingSessions') = (b \in DOMAIN ongoingSessions)
          /\ (b \in DOMAIN ongoingSessions => ongoingSessions'[b] = ongoingSessions[b])
          /\ (prepares' = prepares
              => Range(last'.stopped) \cap ProcsOf(ongoingSessions, {b}) = {})
          /\ RelaysFor(b) \cap openRelays \subseteq openRelays']_vars

\* A stop for one session has deleted its entries and closed its relay while
\* another session is active with an open relay.
C15_Witness ==
  /\ last.op = "stop" /\ last.closed # {}
  /\ \E b \in DOMAIN ongoingSessions :
       b # last.id /\ ongoingSessions[b].rtpSplitter \in openRelays

\* C16: the shutdown handler calls stop on every session that is active when
\* it begins, and runs to its end, also when the stop() of a process of one of
\* these sessions throws: stop() is called on the first process of every
\* active session.
C16_ShutdownStopsEverySession ==
  [][Ran("shutdown", "")
     => /\ last'.result = "returned"
        /\ \A i \in DOMAIN ongoingSessions :
             Head(ongoingSessions[i].ffmpeg) \in Range(last'.stopped)]_vars

\* The shutdown handler has run with two sessions active: stopping one of them
\* threw, so that it is still registered, and the other one was stopped and is gone.
C16_Witness ==
  /\ last.op = "shutdown" /\ last.error = "stop"
  /\ Cardinality(DOMAIN ongoingSessions) = 1
  /\ \E p \in Range(last.stopped) : p \notin ProcsOf(ongoingSessions, SessionIds)

\* C18: when two-way audio is in effect for a session (the camera has two-way
\* audio and the AAC encoder is there), a start that succeeds leaves an active
\* record with two processes, the outbound one first and the talkback one
\* second, and with the one relay of the session.
C18_TwoWayStartLaunchesTwo ==
  [][\A i \in SessionIds :
       (/\ Ran("start", i) /\ last'.result = "returned"
        /\ twoWayAudio /\ pendingSessions[i].hasLibFdk)
       => /\ ongoingSessions'[i].ffmpeg =
               <<OutboundProcess(pendingSessions[i].serial),
                 TalkbackProcess(pendingSessions[i].serial)>>
          /\ ongoingSessions'[i].rtpSplitter = pendingSessions[i].rtpSplitter
          /\ ongoingSessions'[i].rtpSplitter # NoRelay
          /\ ongoingSessions'[i].rtpSplitter \in openRelays']_vars

\* A two-way session has been started: its active record holds two processes
\* and a relay.
C18_Witness ==
  /\ last.op = "start" /\ last.result = "returned"
  /\ last.id \in DOMAIN ongoingSessions
  /\ Len(ongoingSessions[last.id].ffmpeg) = 2
  /\ ongoingSessions[last.id].rtpSplitter # NoRelay

\* C17: in the response of every negotiation that completes, the SSRC of the
\* video stream differs from the SSRC of the audio stream.
C17_SsrcDistinct ==
  (last.op = "prepare" /\ last.result = "returned")
  => last.out.video.ssrc # last.out.audio.ssrc

\* C19: in a two-way session the text written to the standard input of the
\* talkback process, which is then closed, has as its crypto line the base64
\* form of the audio key followed by the audio salt, and these are the audio
\* srtp_key and srtp_salt of the negotiate response: the response of a
\* negotiation carries the key and the salt its stored session holds (first
\* part), and start encodes what the stored session holds (second part).
C19_SdpCarriesAudioKey ==
  /\ []((last.op = "prepare" /\ last.result = "returned")
        => pendingSessions[last.id].audioSRTP
             = last.out.audio.srtp_key \o last.out.audio.srtp_salt)
  /\ [][\A i \in SessionIds :
          (Ran("start", i) /\ last'.out.kind = "stdin")
          => LET sdp == last'.out.written[1]
             IN /\ last'.out.process = ongoingSessions'[i].ffmpeg[2]
                /\ Len(last'.out.written) = 1
                /\ last'.out.ended
                /\ sdp[Len(sdp)] = <<"a=crypto:1 AES_CM_128_HMAC_SHA1_80 inline:",
                                     Base64(pendingSessions[i].audioSRTP)>>]_vars

\* A two-way session has been started and its talkback process was given the
\* session description, with an audio key that differs from the video key.
C19_Witness ==
  /\ last.op = "start" /\ last.result = "returned"
  /\ last.out.kind = "stdin"
  /\ last.out.written[1][Len(last.out.written[1])][2] = <<"1", "J", "0", "4", "Z", "Q", "=", "=">>

\* C20: the three local ports a relay is constructed with (server port, return
\* port, two-way port) are pairwise distinct.
C20_RelayPortsDistinct ==
  \A t \in prepares :
    t.rtpSplitter # NoRelay
    => /\ t.audioServerPort # t.audioReturnPort
       /\ t.audioServerPort # t.audioTwoWayPort
       /\ t.audioReturnPort # t.audioTwoWayPort

----------------------------------------------------------------------------
\* The command line of the last start, if it built one.

\* The elements of a command line that belong to its audio portion.
AudioArguments(fcmd) ==
  SelectSeq(fcmd, LAMBDA a : a[1] \in {"-map 0:a", "-acodec libfdk_aac", "-profile:a aac_eld",
                                       "-ar ", "-b:a ", "-ac 1"})

\* The srtp:// elements of a command line, in order.
EgressUrls(fcmd) == SelectSeq(fcmd, LAMBDA a : a[1] = "srtp://")

\* A start has built a command line (it found a pending session).
StartBuilt == last.op = "start" /\ last.built.kind = "command"

\* C21 as stated: on a camera without two-way audio, the command line built by
\* a start has no audio arguments, a start launches no second process, and a
\* stop returns without a call of close() on a relay.
C21_NoTwoWayNoAudioArguments ==
  ~twoWayAudio
  => /\ StartBuilt
        => /\ AudioArguments(last.built.fcmd) = <<>>
           /\ last.id \in DOMAIN ongoingSessions
                => Len(ongoingSessions[last.id].ffmpeg) = 1
     /\ last.op = "stop"
        => /\ last.result = "returned" /\ last.cb = "ok"
           /\ last.closed = {} /\ last.error # "close"

\* C21, amended: on a camera without two-way audio, the command line built by
\* a start has the audio arguments exactly when the AAC codec is available to
\* the session; a start launches one process and no second one, the session
\* holds no relay, and a stop returns without a call of close() on a relay.
C21_NoTwoWayAudioByCodec ==
  ~twoWayAudio
  => /\ StartBuilt
        => /\ (AudioArguments(last.built.fcmd) # <<>>) <=> last.built.sessionInfo.hasLibFdk
           /\ last.result = "returned"
                => /\ last.id \in DOMAIN ongoingSessions
                   /\ ongoingSessions[last.id].ffmpeg
                        = <<OutboundProcess(last.built.sessionInfo.serial)>>
           /\ last.id \in DOMAIN ongoingSessions
                => /\ Len(ongoingSessions[last.id].ffmpeg) = 1
                   /\ ongoingSessions[last.id].rtpSplitter = NoRelay
     /\ last.op = "stop"
        => /\ last.result = "returned" /\ last.cb = "ok"
           /\ last.closed = {} /\ last.error # "close"

\* A session with the AAC codec was started on a camera without two-way audio:
\* one process runs, and its command line has the audio arguments.
C21_Witness ==
  /\ ~twoWayAudio
  /\ StartBuilt /\ last.result = "returned"
  /\ last.built.sessionInfo.hasLibFdk
  /\ Len(AudioArguments(last.built.fcmd)) = 6
  /\ Len(ongoingSessions[last.id].ffmpeg) = 1

\* C22: a session for which the AAC codec was found unavailable gets no relay
\* and no talkback ports at any point of its negotiation, also on a camera
\* with two-way audio; its start ends in no other error than a failed launch,
\* builds a command line without audio portion and, once it has returned,
\* leaves the session active with one process, no relay and nothing written
\* to a talkback process.
C22_NoCodecVideoOnly ==
  /\ \A t \in prepares :
       ~t.hasLibFdk
       => /\ t.rtpSplitter = NoRelay
          /\ t.audioServerPort = NoPort /\ t.audioTwoWayPort = NoPort
  /\ \A i \in DOMAIN pendingSessions :
       ~pendingSessions[i].hasLibFdk
       => /\ pendingSessions[i].rtpSplitter = NoRelay
          /\ pendingSessions[i].audioTwoWayPort = NoPort
  /\ (StartBuilt /\ ~last.built.sessionInfo.hasLibFdk)
     => /\ AudioArguments(last.built.fcmd) = <<>>
        /\ Len(EgressUrls(last.built.fcmd)) = 1
        /\ last.result \in {"returned", "LaunchError"}
        /\ last.out = NoOutput
        /\ last.result = "returned"
           => /\ last.id \in DOMAIN ongoingSessions
              /\ last.id \notin DOMAIN pendingSessions
              /\ ongoingSessions[last.id]
                   = [ffmpeg |-> <<OutboundProcess(last.built.sessionInfo.serial)>>,
                      rtpSplitter |-> NoRelay]

\* On a camera with two-way audio, a session without the AAC codec has been
\* negotiated and started: it is active with one process and no relay.
C22_Witness ==
  /\ twoWayAudio
  /\ StartBuilt /\ last.result = "returned"
  /\ ~last.built.sessionInfo.hasLibFdk
  /\ Len(ongoingSessions[last.id].ffmpeg) = 1
  /\ openRelays = {}

\* The part of an srtp:// url after "&pkt_size=", and its port (between ":"
\* and "?rtcpport=").
PktSize(url) ==
  LET k == CHOOSE j \in 1..Len(url) : url[j] = "&pkt_size="
  IN SubSeq(url, k + 1, Len(url))

PortOf(url) ==
  LET k == CHOOSE j \in 1..Len(url) : url[j] = "?rtcpport="
  IN SubSeq(url, 4, k - 1)

\* C23: whatever bitrate, resolution and frame rate a start request asks for,
\* the command line built sends video to the session's video port with a
\* packet size of 564 and, when it has an audio portion, audio to the
\* session's audio port with a packet size of 188.
C23_PacketSizes ==
  StartBuilt
  => LET urls == EgressUrls(last.built.fcmd)
         sessionInfo == last.built.sessionInfo
     IN /\ Len(urls) = IF AudioArguments(last.built.fcmd) # <<>> THEN 2 ELSE 1
        /\ PortOf(urls[1]) = Decimal(sessionInfo.videoPort)
        /\ PktSize(urls[1]) = <<"5", "6", "4">>
        /\ Len(urls) = 2
           => /\ PortOf(urls[2]) = Decimal(sessionInfo.audioPort)
              /\ PktSize(urls[2]) = <<"1", "8", "8">>

\* A start asking for 640x360 at 15 frames a second and 132 kbps has built a
\* command line with a video and an audio portion.
C23_Witness ==
  /\ StartBuilt
  /\ last.built.request.video.width = 640
  /\ last.built.request.video.fps = 15
  /\ last.built.request.video.max_bit_rate = 132
  /\ Len(EgressUrls(last.built.fcmd)) = 2

\* What a command line is built from, the identity of the SessionInfo object
\* and of its relay object left aside.
CommandInputs(b) ==
  [cameraUrl |-> b.cameraUrl, request |-> b.request,
   sessionInfo |-> [b.sessionInfo EXCEPT !.serial = 0, !.rtpSplitter = NoRelay]]

C25_ReconfigureChangesNothing ==
  [][\A i \in SessionIds :
       Ran("reconfigure", i)
       => /\ UNCHANGED <<pendingSessions, ongoingSessions, openRelays, prepares, nNeg,
                         shutdown>>
          /\ last'.stopped = <<>> /\ last'.closed = {}
          /\ last'.built = NoCommand /\ last'.out = NoOutput
          /\ last'.result = "returned" /\ last'.error = "none" /\ last'.cb = "ok"]_vars

\* A RECONFIGURE request was answered for a session that is streaming with
\* two processes and a relay, all of which are still there.
C25_Witness ==
  /\ last.op = "reconfigure" /\ last.cb = "ok"
  /\ last.id \in DOMAIN ongoingSessions
  /\ Len(ongoingSessions[last.id].ffmpeg) = 2
  /\ ongoingSessions[last.id].rtpSplitter \in openRelays

\* C26: in every state, every relay that prepareStream has constructed and
\* that is not closed is referred to by a pending or an active session (or is
\* still held by the suspended call that constructed it).
C26_RelaysReferencedOrClosed == Orphans = {}

\* The prepareStream call t ends in this step (it completes or is rejected).
Ended(t) == \A u \in prepares' : u.serial # t.serial

\* C27: a stop(id) that runs while a prepareStream(id) call is suspended
\* cancels that call: when the call ends after the stop (and the stop was the
\* request answered last), it does not leave a pending session for id.
C27_StopCancelsNegotiation ==
  [][\A t \in prepares :
       (/\ last.op = "stop" /\ last.id = t.id /\ last.error = "none"
        /\ t.serial \in last.found.suspended
        /\ Ended(t))
       => t.id \notin DOMAIN pendingSessions']_vars

\* C28: within one stop(id) of a session that streams with a talkback process
\* and a relay, stop() is called on the outbound process before the talkback
\* process; close() is called on the relay only after both stop() calls, and
\* the registry entries are deleted only after the relay was closed.
C28_StopOrder ==
  [][\A i \in SessionIds :
       (/\ Ran("stop", i)
        /\ i \in DOMAIN ongoingSessions
        /\ Len(ongoingSessions[i].ffmpeg) = 2
        /\ ongoingSessions[i].rtpSplitter # NoRelay)
       => LET n == ongoingSessions[i].rtpSplitter
              closeCalled == last'.closed # {} \/ last'.error = "close"
          IN /\ last'.stopped \in {<<OutboundProcess(n)>>,
                                   <<OutboundProcess(n), TalkbackProcess(n)>>}
             /\ closeCalled => /\ last'.stopped = ongoingSessions[i].ffmpeg
                               /\ last'.error # "stop"
             /\ i \notin DOMAIN ongoingSessions'
                => /\ last'.closed = {n}
                   /\ i \notin DOMAIN pendingSessions'
             /\ last'.error = "none" => i \notin DOMAIN ongoingSessions']_vars

\* A session that streamed with two processes and a relay has been stopped:
\* both processes were told to stop, outbound first, and the relay is closed.
C28_Witness ==
  /\ last.op = "stop" /\ last.error = "none"
  /\ Len(last.stopped) = 2
  /\ last.stopped[1] = OutboundProcess(1) /\ last.stopped[2] = TalkbackProcess(1)
  /\ last.closed = {1}
  /\ last.id \notin DOMAIN ongoingSessions

\* C29: a prepareStream call that completes leaves for its session id the
\* SessionInfo it has built itself, whatever entry was pending for the id
\* before, and changes no other entry (first part); a start of the id
\* afterwards builds its command line from that pending entry, names its
\* processes after it and registers its relay (second part).
C29_StartUsesLastNegotiation ==
  /\ [][\A t \in prepares :
          (Ended(t) /\ last'.result = "returned")
          => /\ last'.op = "prepare" /\ last'.id = t.id
             /\ DOMAIN pendingSessions' = DOMAIN pendingSessions \cup {t.id}
             /\ pendingSessions'[t.id] = SessionInfo(t)
             /\ \A i \in DOMAIN pendingSessions \ {t.id} :
                  pendingSessions'[i] = pendingSessions[i]]_vars
  /\ [][\A i \in SessionIds :
          (Ran("start", i) /\ last'.built.kind = "command" /\ last' # last)
          => /\ i \in DOMAIN pendingSessions
             /\ last'.built.sessionInfo = pendingSessions[i]
             /\ last'.result = "returned"
                => /\ ongoingSessions'[i].rtpSplitter = pendingSessions[i].rtpSplitter
                   /\ ongoingSessions'[i].ffmpeg[1]
                        = OutboundProcess(pendingSessions[i].serial)]_vars

\* The second prepareStream call of a session id has completed while the
\* entry of the first was pending, and the pending entry is that of the second.
C29_Witness ==
  /\ last.op = "prepare" /\ last.result = "returned"
  /\ last.found.pending = 1
  /\ pendingSessions[last.id].serial = 2
  /\ pendingSessions[last.id].rtpSplitter = 2

\* The pending entry of t's session id after this step is the one t has built.
Stored(t) ==
  /\ t.id \in DOMAIN pendingSessions'
  /\ pendingSessions'[t.id].serial = t.serial

\* C30: a prepareStream call uses its callback in the step in which it ends
\* and in no other, and there it reports success exactly when that step
\* stores its SessionInfo as the pending entry of its id (first part); a STOP,
\* a RECONFIGURE and a request of any other type are each answered with one
\* callback() when their handler returns, and a request of another type does
\* to the registries, the processes and the relay what a STOP does (second
\* part).
C30_CallbackOnce ==
  /\ [][\A t \in prepares :
          /\ (t \notin prepares' /\ ~Ended(t))
             => /\ last' = last
                /\ pendingSessions' = pendingSessions
          /\ Ended(t)
             => /\ last'.op = "prepare" /\ last'.id = t.id
                /\ last'.cb \in {"ok", "none"}
                /\ (last'.cb = "ok") <=> Stored(t)
                /\ (last'.cb = "ok") <=> (last'.result = "returned")
          /\ Stored(t) => Ended(t)]_vars
  /\ [][\A i \in SessionIds :
          /\ \A op \in {"stop", "reconfigure", "other"} :
               Ran(op, i) => last'.cb = "ok" /\ last'.result = "returned"
          /\ (Ran("other", i) /\ last' # last)
             => \E F \in SUBSET ProcsOf(ongoingSessions, {i}),
                   CT \in SUBSET RelaysOf(ongoingSessions, {i}) :
                  LET r == StopStream(pendingSessions, ongoingSessions, i, F, CT)
                  IN /\ pendingSessions' = r.pendingSessions
                     /\ ongoingSessions' = r.ongoingSessions
                     /\ openRelays' = openRelays \ r.closed
                     /\ last'.stopped = r.calls /\ last'.closed = r.closed
                     /\ last'.error = r.error]_vars

\* A request of another type than START, RECONFIGURE and STOP was answered
\* after it stopped the two processes of its session and closed its relay.
C30_Witness ==
  /\ last.op = "other" /\ last.cb = "ok"
  /\ Len(last.stopped) = 2 /\ last.closed # {}
  /\ last.id \notin DOMAIN ongoingSessions

----------------------------------------------------------------------------
\* The "-srtp_out_params" elements of a command, in the order they appear.
SrtpOutParams(fcmd) == SelectSeq(fcmd, LAMBDA a : a[1] = "-srtp_out_params ")

\* "-srtp_out_params " + buffer.toString("base64") as an element of a command.
OutParams(buffer) == <<"-srtp_out_params ">> \o Base64(buffer)

\* C31: key material is forwarded unchanged from negotiation to command
\* construction.  When a prepareStream call completes, its response carries the
\* srtp_key and srtp_salt of its own request for video and for audio, and the
\* entry it stores for its session id holds key followed by salt of that
\* request for each medium (first part); an entry that stays pending keeps its
\* material, whatever is negotiated, started or stopped for any session
\* (second part); and the command built by start has as its SRTP output
\* parameters the base64 form of the video material of the pending entry of
\* its own session id, followed, when the audio portion is built, by that of
\* its audio material, and no other (third part).
C31_KeyMaterialForwarded ==
  /\ [][\A t \in prepares :
          (Ended(t) /\ last'.result = "returned")
          => /\ last'.out.kind = "response"
             /\ last'.out.video.srtp_key = t.request.video.srtp_key
             /\ last'.out.video.srtp_salt = t.request.video.srtp_salt
             /\ last'.out.audio.srtp_key = t.request.audio.srtp_key
             /\ last'.out.audio.srtp_salt = t.request.audio.srtp_salt
             /\ pendingSessions'[t.id].serial = t.serial
             /\ pendingSessions'[t.id].videoSRTP
                  = t.request.video.srtp_key \o t.request.video.srtp_salt
             /\ pendingSessions'[t.id].audioSRTP
                  = t.request.audio.srtp_key \o t.request.audio.srtp_salt]_vars
  /\ [][\A i \in DOMAIN pendingSessions \cap DOMAIN pendingSessions' :
          pendingSessions'[i].serial = pendingSessions[i].serial
          => /\ pendingSessions'[i].videoSRTP = pendingSessions[i].videoSRTP
             /\ pendingSessions'[i].audioSRTP = pendingSessions[i].audioSRTP]_vars
  /\ [][\A i \in SessionIds :
          (Ran("start", i) /\ last'.built.kind = "command")
          => /\ i \in DOMAIN pendingSessions
             /\ SrtpOutParams(last'.built.fcmd)
                  = IF pendingSessions[i].hasLibFdk
                    THEN <<OutParams(pendingSessions[i].videoSRTP),
                           OutParams(pendingSessions[i].audioSRTP)>>
                    ELSE <<OutParams(pendingSessions[i].videoSRTP)>>]_vars

\* Start has built a command with a video and an audio portion for a session
\* whose video material differs from its audio material, while another session
\* is pending with video material other than this session's.
C31_Witness ==
  /\ StartBuilt
  /\ last.built.sessionInfo.hasLibFdk
  /\ Len(SrtpOutParams(last.built.fcmd)) = 2
  /\ last.built.sessionInfo.videoSRTP # last.built.sessionInfo.audioSRTP
  /\ \E j \in DOMAIN pendingSessions \ {last.id} :
       pendingSessions[j].videoSRTP # last.built.sessionInfo.videoSRTP

----------------------------------------------------------------------------
\* The text of a line whose pieces are all strings.
RECURSIVE LineText(_)
LineText(line) == IF line = <<>> THEN "" ELSE line[1] \o LineText(Tail(line))

\* The address family as the session description names it.
FamilyName(sessionInfo) == IF sessionInfo.addressVersion = "ipv6" THEN "IP6" ELSE "IP4"

\* C32: the session description written to the talkback process has the
\* literal structure for both address families: its origin line reads
\* "o=- 0 0 IN IP4 127.0.0.1" for an ipv4 session and "o=- 0 0 IN IP6 127.0.0.1"
\* for an ipv6 session, its connection line "c=IN IP4 <peer address>" and
\* "c=IN IP6 <peer address>", with single spaces between the fields, and its
\* media line carries the two-way port negotiated for the session.
C32_SdpLiteralStructure ==
  (StartBuilt /\ last.out.kind = "stdin")
  => LET sdp == last.out.written[1]
         sessionInfo == last.built.sessionInfo
     IN /\ LineText(sdp[2]) = "o=- 0 0 IN " \o FamilyName(sessionInfo) \o " 127.0.0.1"
        /\ LineText(sdp[4]) = "c=IN " \o FamilyName(sessionInfo) \o " " \o sessionInfo.address
        /\ sdp[6] = <<"m=audio ", sessionInfo.audioTwoWayPort, " RTP/AVP 110">>
====
